---- MODULE Spec2Model ----
(***************************************************************************)
(* Model of the homing subsystem, FluidNC/src/Machine/Homing.cpp:          *)
(* Homing::run_cycles, run_one_cycle, run, plan_move, needsPulloff2,       *)
(* set_mpos and axis_mask_from_cycle, together with the asynchronous       *)
(* sources the polling loop of run() reads: the realtime flags, the limit  *)
(* masks and the stepper that raises cycle-stop when a move ends.          *)
(*                                                                         *)
(* MotorMask and AxisMask values are bit sets; they are modelled as the    *)
(* set of the bit numbers that are 1, so that & is \cap, | is \cup,        *)
(* clear_bits is \ and m >> 16 maps every bit b >= 16 to b - 16.           *)
(*                                                                         *)
(* One iteration of the do/while loop of run() is one action.  Every       *)
(* shared variable is read at most once per iteration and the writers of   *)
(* the different variables are independent, so an iteration whose reads    *)
(* are spread in time is equivalent to one that reads them at one instant; *)
(* the asynchronous writers interleave between iterations and between the  *)
(* statements that follow the loop.                                        *)
(***************************************************************************)
EXTENDS Integers, Sequences, FiniteSets, TLC

\* ------------------------------------------------------------------------
\* Bounds of the model
\* ------------------------------------------------------------------------
\* number of axes of the machine (config->_axes->_numberAxis)
NumAxes == 2
\* upper bound of the cycle loop of run_cycles (MAX_N_AXIS of the build)
MaxNAxis == 2
\* settle times range over 1..MaxSettle
MaxSettle == 2
\* at most this many axes of the machine have two motors
MaxDualAxes == 1
\* seek rates range over 1..MaxRate and travel limits over 1..MaxTravel when
\* plan_move is applied on its own
MaxRate == 3
MaxTravel == 3

\* ------------------------------------------------------------------------
\* Program constants
\* ------------------------------------------------------------------------
\* width of the motor-0 half of a MotorMask (MOTOR0 = 0xffff, motors >> 16)
MotorShift == 16
\* the sentinel of run_cycles that asks for every configured cycle
AllCycles == {}

Axes == 0 .. (NumAxes - 1)
\* one axis index past the configured ones, to form masks with stray bits
AxisBits == 0 .. NumAxes

motor_bit(axis, motor) == axis + MotorShift * motor

\* motors >> 16 on a bit set
ShiftRight16(mask) == {b - MotorShift : b \in {x \in mask : x >= MotorShift}}

Phases == <<"PrePulloff", "FastApproach", "Pulloff0", "SlowApproach", "Pulloff1", "Pulloff2">>

ApproachPhases == {"FastApproach", "SlowApproach"}

HomingAlarms == {"HomingFailReset", "HomingFailDoor", "HomingFailApproach", "HomingFailPulloff"}

Max(a, b) == IF a >= b THEN a ELSE b

RECURSIVE SetMax(_)
SetMax(S) == IF S = {} THEN 0
             ELSE LET x == CHOOSE y \in S : TRUE IN Max(x, SetMax(S \ {x}))

\* ------------------------------------------------------------------------
\* State
\* ------------------------------------------------------------------------
VARIABLES
    cfg,              \* config->_axes->_axis[axis]: homing parameters per axis
    request,          \* the axisMask argument of run_cycles
    pc,               \* position of the homing thread
    cycle,            \* loop variable of run_cycles
    someAxisHomed,    \* local of run_cycles
    axisMask,         \* axisMask of run_one_cycle after &= homingMask
    motors,           \* motors of run_one_cycle
    phaseIdx,         \* index in Phases of the run() call in progress
    remainingMotors,  \* parameter of run()
    settling_ms,      \* local of run()
    target,           \* the target vector plan_move passed to plan_buffer_line
    rate,             \* local of plan_move: plan_data.feed_rate squared
    approach,         \* Homing::_approach
    alarm,            \* ExecAlarm thrown by run() and not yet caught
    rtAlarm,          \* rtAlarm
    sysState,         \* sys.state
    rtStatusReport, rtReset, rtSafetyDoor, rtCycleStop,
    posLimitMask, negLimitMask,   \* Machine::Axes::posLimitMask / negLimitMask
    moving,           \* the stepper is executing a planned move
    homingMode,       \* motors that are in homing mode
    blocked,          \* motors that are blocked from stepping
    motorSteps,       \* step position per axis
    cycleLog,         \* history: <<cycle, axes>> of every run_one_cycle call
    phaseLog,         \* history: phases of this cycle whose move was planned
    returned,         \* history: phases of this cycle whose run() returned
    commitLog,        \* history: axis masks passed to set_mpos
    runTrace,         \* history: what the run() call in progress has done
    lastExit,         \* history: how the last run() call ended
    limitSeen,        \* history: motors whose limit bit an approach loop has read active
    fnResult          \* the value a function applied on its own returned

cfgVars == <<cfg, request, fnResult>>
rtVars == <<rtStatusReport, rtReset, rtSafetyDoor, rtCycleStop>>
limitVars == <<posLimitMask, negLimitMask>>
cyclesVars == <<cycle, someAxisHomed>>
cycleVars == <<axisMask, motors, phaseIdx>>
runVars == <<remainingMotors, settling_ms, target, rate>>
motorVars == <<homingMode, blocked, motorSteps>>
histVars == <<cycleLog, phaseLog, returned, commitLog, runTrace, lastExit, limitSeen>>

vars == <<cfg, request, pc, cycle, someAxisHomed, axisMask, motors, phaseIdx,
          remainingMotors, settling_ms, target, rate, approach, alarm, rtAlarm, sysState,
          rtStatusReport, rtReset, rtSafetyDoor, rtCycleStop, posLimitMask,
          negLimitMask, moving, homingMode, blocked, motorSteps, cycleLog,
          phaseLog, returned, commitLog, runTrace, lastExit, limitSeen, fnResult>>

\* ------------------------------------------------------------------------
\* Configuration
\* ------------------------------------------------------------------------
\* an axis without a homing section
NoHoming == [homing |-> FALSE, cycle |-> 0, settle_ms |-> 0, positiveDirection |-> FALSE,
             dual |-> FALSE, extraPulloff |-> 0]

AxisConfigs ==
    {NoHoming} \cup
    {c \in [homing : {TRUE}, cycle : 0 .. (MaxNAxis + 1), settle_ms : 1 .. MaxSettle,
            positiveDirection : BOOLEAN, dual : BOOLEAN, extraPulloff : {-1, 0, 1}] :
        ~c.dual => c.extraPulloff = 0}

Configs == {c \in [Axes -> AxisConfigs] : Cardinality({a \in Axes : c[a].dual}) <= MaxDualAxes}

\* plan_move reads the rates, the travel, the pull-off and the scale factors of
\* an axis.  The scale factors are in hundredths (ScalerUnit is 1.0).
ScalerUnit == 100

\* the motion parameters of axis a of the machines of the cycle model
MachineRates(a) ==
    [seekRate |-> a + 2, feedRate |-> a + 1, maxTravel |-> NumAxes + 1 - a, commonPulloff |-> 1,
     seek_scaler |-> 110, feed_scaler |-> 110]

\* The machines of the cycle model: axis a settles in (a % MaxSettle) + 1 ms and
\* the even axes home in the positive direction, the odd ones in the negative
MachineConfigs ==
    {[a \in Axes |-> c[a] @@ MachineRates(a)] :
        c \in {d \in Configs : \A a \in Axes : d[a].homing =>
                /\ d[a].settle_ms = (a % MaxSettle) + 1
                /\ d[a].positiveDirection = (a % 2 = 0)}}

\* the cycle numbers are read by axis_mask_from_cycle only, which a request
\* for one axis set never calls: such a request is run with them unset
Requests(c) == IF \A a \in Axes : c[a].cycle = 0 THEN SUBSET Axes ELSE {{}}

\* step position of an axis before homing, and mpos_to_steps(homing->_mpos, axis)
StepsBeforeHoming(axis) == 7 + axis
HomeSteps(axis) == 100 + axis

\* Machine::Axes::homingMask: the axes that are configured for homing
homingMask == {a \in Axes : cfg[a].homing}

\* the motors of the axes of a mask: motor 0, and motor 1 of a squared axis
MotorsOf(mask) == {motor_bit(a, 0) : a \in mask} \cup
                  {motor_bit(a, 1) : a \in {x \in mask : cfg[x].dual}}

\* Axes::set_homing_mode(axisMask, enable): the homing mode of the motors of
\* the axes; leaving homing mode unblocks every motor
set_homing_mode(mask, enable) ==
    [motors |-> MotorsOf(mask),
     homingMode |-> IF enable THEN homingMode \cup MotorsOf(mask) ELSE homingMode \ MotorsOf(mask),
     blocked |-> IF enable THEN blocked ELSE {}]

\* ------------------------------------------------------------------------
\* Pure functions of Homing.cpp
\* ------------------------------------------------------------------------
\* axis_mask_from_cycle that takes the axes of every later cycle as well
axis_mask_from_cycle_GE(c, cy) == {a \in Axes : c[a].homing /\ c[a].cycle >= cy}

\* Homing::axis_mask_from_cycle
axis_mask_from_cycle(c, cy) == {a \in Axes : c[a].homing /\ c[a].cycle = cy}

\* needsPulloff2 that takes any squared axis for one with different pull-offs
NeedsPulloff2In_AnySquared(c, m) == m \cap ShiftRight16(m) # {}

\* Homing::needsPulloff2 under configuration c
NeedsPulloff2In(c, m) ==
    LET squaredAxes == m \cap ShiftRight16(m)
    IN  IF squaredAxes = {} THEN FALSE
        ELSE \E a \in Axes : a \in squaredAxes /\ c[a].extraPulloff # 0

needsPulloff2(m) == NeedsPulloff2In(cfg, m)

\* the axes that plan_move finds active: axesMask
ActiveAxes(m) == {a \in Axes : motor_bit(a, 0) \in m \/ motor_bit(a, 1) \in m}

\* the settle time plan_move returns
PlanSettle(m) == SetMax({cfg[a].settle_ms : a \in ActiveAxes(m)})

\* plan_move that blocks the motor with the larger pull-off
PlanBlocks_BlocksLarger(m, phase) ==
    IF phase # "Pulloff2" THEN {}
    ELSE {motor_bit(a, 0) : a \in {x \in ActiveAxes(m) : cfg[x].extraPulloff < 0}} \cup
         {motor_bit(a, 1) : a \in {x \in ActiveAxes(m) : cfg[x].extraPulloff > 0}}

\* the motors plan_move blocks
PlanBlocks(m, phase) ==
    IF phase # "Pulloff2" THEN {}
    ELSE {motor_bit(a, 1) : a \in {x \in ActiveAxes(m) : cfg[x].extraPulloff < 0}} \cup
         {motor_bit(a, 0) : a \in {x \in ActiveAxes(m) : cfg[x].extraPulloff > 0}}

\* a float of plan_move: the fraction <<numerator, denominator>> in lowest
\* terms; a denominator of 0 (NaN, infinity) is kept as it is
Abs(x) == IF x < 0 THEN -x ELSE x

RECURSIVE GCD(_, _)
GCD(a, b) == IF b = 0 THEN a ELSE GCD(b, a % b)

Frac(n, d) ==
    IF d = 0 THEN <<n, 0>>
    ELSE LET g == GCD(Abs(n), Abs(d))
             sgn == IF d < 0 THEN -1 ELSE 1
         IN  <<sgn * (n \div g), sgn * (d \div g)>>

\* axis_rate of plan_move for an axis in a phase
AxisRate(c, axis, phase) ==
    IF phase = "FastApproach" THEN c[axis].seekRate ELSE c[axis].feedRate

\* travel of plan_move for an axis in a phase, after travel = -travel
AxisTravel(c, axis, phase) ==
    IF phase = "FastApproach" THEN c[axis].maxTravel
    ELSE IF phase = "Pulloff2" THEN Abs(c[axis].extraPulloff)
    ELSE c[axis].commonPulloff

\* limitingRate after the first loop of plan_move has visited the axes from
\* axis on: maxSeekTime is the fraction maxSeek[1] / maxSeek[2]
RECURSIVE LimitingRateFrom(_, _, _, _, _, _)
LimitingRateFrom(c, active, phase, axis, maxSeek, limitingRate) ==
    IF axis >= NumAxes THEN limitingRate
    ELSE IF axis \notin active THEN
        LimitingRateFrom(c, active, phase, axis + 1, maxSeek, limitingRate)
    ELSE LET axis_rate == AxisRate(c, axis, phase)
             travel == AxisTravel(c, axis, phase)
         IN  IF travel * maxSeek[2] > maxSeek[1] * axis_rate
             THEN LimitingRateFrom(c, active, phase, axis + 1, <<travel, axis_rate>>, axis_rate)
             ELSE LimitingRateFrom(c, active, phase, axis + 1, maxSeek, limitingRate)

LimitingRate(c, m, phase) == LimitingRateFrom(c, ActiveAxes(m), phase, 0, <<0, 1>>, 0)

\* the target vector plan_move passes to plan_buffer_line: the position of an
\* axis that is not active, else the signed travel times the scale factor,
\* times rates[axis] / limitingRate in a fast approach
PlanTarget(c, m, phase, appr, mpos) ==
    [axis \in Axes |->
        IF axis \notin ActiveAxes(m) THEN Frac(mpos[axis], 1)
        ELSE LET travel == AxisTravel(c, axis, phase)
                 signed == IF c[axis].positiveDirection # appr THEN -travel ELSE travel
                 scaler == IF appr THEN (IF phase = "FastApproach" THEN c[axis].seek_scaler
                                         ELSE c[axis].feed_scaler)
                           ELSE ScalerUnit
             IN  IF phase = "FastApproach"
                 THEN Frac(signed * scaler * AxisRate(c, axis, phase),
                           ScalerUnit * LimitingRate(c, m, phase))
                 ELSE Frac(signed * scaler, ScalerUnit)]

\* rate of plan_move: the sum of the squares of the rates of the active axes
PlanRate(c, m, phase) ==
    LET sq == [axis \in Axes |-> IF axis \in ActiveAxes(m)
                                 THEN AxisRate(c, axis, phase) * AxisRate(c, axis, phase) ELSE 0]
        sum[n \in 0 .. NumAxes] == IF n = 0 THEN 0 ELSE sum[n - 1] + sq[n - 1]
    IN  sum[NumAxes]

\* run() without the early return of PrePulloff
SkipRun_NoPrePulloffTest(m, phase, limited) == m = {}

\* the early returns of run()
SkipRun(m, phase, limited) ==
    \/ m = {}
    \/ phase = "PrePulloff" /\ limited \cap m = {}

\* _approach as run() sets it before plan_move
ApproachOf(phase) == phase \in ApproachPhases

\* the loop with the safety-door test ahead of the reset test
run_iteration_DoorFirst(rem, appr, limited, status, reset, door, cstop) ==
    LET rem1 == IF appr THEN rem \ limited ELSE rem
    IN  IF door THEN
            [remainingMotors |-> rem1, rtStatusReport |-> FALSE, rtCycleStop |-> cstop,
             alarm |-> "HomingFailDoor"]
        ELSE IF reset THEN
            [remainingMotors |-> rem1, rtStatusReport |-> FALSE, rtCycleStop |-> cstop,
             alarm |-> "HomingFailReset"]
        ELSE IF cstop THEN
            IF appr THEN
                [remainingMotors |-> rem1, rtStatusReport |-> FALSE, rtCycleStop |-> FALSE,
                 alarm |-> "HomingFailApproach"]
            ELSE IF limited \cap rem1 # {} THEN
                [remainingMotors |-> rem1, rtStatusReport |-> FALSE, rtCycleStop |-> FALSE,
                 alarm |-> "HomingFailPulloff"]
            ELSE
                [remainingMotors |-> {}, rtStatusReport |-> FALSE, rtCycleStop |-> FALSE,
                 alarm |-> "None"]
        ELSE
            [remainingMotors |-> rem1, rtStatusReport |-> FALSE, rtCycleStop |-> cstop,
             alarm |-> "None"]

\* the loop that takes a cycle-stop during an approach for the end of the phase
run_iteration_ApproachStopEnds(rem, appr, limited, status, reset, door, cstop) ==
    LET rem1 == IF appr THEN rem \ limited ELSE rem
    IN  IF reset THEN
            [remainingMotors |-> rem1, rtStatusReport |-> FALSE, rtCycleStop |-> cstop,
             alarm |-> "HomingFailReset"]
        ELSE IF door THEN
            [remainingMotors |-> rem1, rtStatusReport |-> FALSE, rtCycleStop |-> cstop,
             alarm |-> "HomingFailDoor"]
        ELSE IF cstop THEN
            IF ~appr /\ limited \cap rem1 # {} THEN
                [remainingMotors |-> rem1, rtStatusReport |-> FALSE, rtCycleStop |-> FALSE,
                 alarm |-> "HomingFailPulloff"]
            ELSE
                [remainingMotors |-> {}, rtStatusReport |-> FALSE, rtCycleStop |-> FALSE,
                 alarm |-> "None"]
        ELSE
            [remainingMotors |-> rem1, rtStatusReport |-> FALSE, rtCycleStop |-> cstop,
             alarm |-> "None"]

\* the loop that ends a pull-off without looking at the limit switches
run_iteration_NoPulloffTest(rem, appr, limited, status, reset, door, cstop) ==
    LET rem1 == IF appr THEN rem \ limited ELSE rem
    IN  IF reset THEN
            [remainingMotors |-> rem1, rtStatusReport |-> FALSE, rtCycleStop |-> cstop,
             alarm |-> "HomingFailReset"]
        ELSE IF door THEN
            [remainingMotors |-> rem1, rtStatusReport |-> FALSE, rtCycleStop |-> cstop,
             alarm |-> "HomingFailDoor"]
        ELSE IF cstop THEN
            IF appr THEN
                [remainingMotors |-> rem1, rtStatusReport |-> FALSE, rtCycleStop |-> FALSE,
                 alarm |-> "HomingFailApproach"]
            ELSE
                [remainingMotors |-> {}, rtStatusReport |-> FALSE, rtCycleStop |-> FALSE,
                 alarm |-> "None"]
        ELSE
            [remainingMotors |-> rem1, rtStatusReport |-> FALSE, rtCycleStop |-> cstop,
             alarm |-> "None"]

\* the loop that acts on a cycle-stop without clearing the flag
run_iteration_KeepsCycleStop(rem, appr, limited, status, reset, door, cstop) ==
    LET rem1 == IF appr THEN rem \ limited ELSE rem
    IN  IF reset THEN
            [remainingMotors |-> rem1, rtStatusReport |-> FALSE, rtCycleStop |-> cstop,
             alarm |-> "HomingFailReset"]
        ELSE IF door THEN
            [remainingMotors |-> rem1, rtStatusReport |-> FALSE, rtCycleStop |-> cstop,
             alarm |-> "HomingFailDoor"]
        ELSE IF cstop THEN
            IF appr THEN
                [remainingMotors |-> rem1, rtStatusReport |-> FALSE, rtCycleStop |-> cstop,
                 alarm |-> "HomingFailApproach"]
            ELSE IF limited \cap rem1 # {} THEN
                [remainingMotors |-> rem1, rtStatusReport |-> FALSE, rtCycleStop |-> cstop,
                 alarm |-> "HomingFailPulloff"]
            ELSE
                [remainingMotors |-> {}, rtStatusReport |-> FALSE, rtCycleStop |-> cstop,
                 alarm |-> "None"]
        ELSE
            [remainingMotors |-> rem1, rtStatusReport |-> FALSE, rtCycleStop |-> cstop,
             alarm |-> "None"]

\* the loop that ends an approach as soon as one motor is on its switch
run_iteration_AnyLimitEnds(rem, appr, limited, status, reset, door, cstop) ==
    LET rem1 == IF appr THEN (IF rem \cap limited # {} THEN {} ELSE rem) ELSE rem
    IN  IF reset THEN
            [remainingMotors |-> rem1, rtStatusReport |-> FALSE, rtCycleStop |-> cstop,
             alarm |-> "HomingFailReset"]
        ELSE IF door THEN
            [remainingMotors |-> rem1, rtStatusReport |-> FALSE, rtCycleStop |-> cstop,
             alarm |-> "HomingFailDoor"]
        ELSE IF cstop THEN
            IF appr THEN
                [remainingMotors |-> rem1, rtStatusReport |-> FALSE, rtCycleStop |-> FALSE,
                 alarm |-> "HomingFailApproach"]
            ELSE IF limited \cap rem1 # {} THEN
                [remainingMotors |-> rem1, rtStatusReport |-> FALSE, rtCycleStop |-> FALSE,
                 alarm |-> "HomingFailPulloff"]
            ELSE
                [remainingMotors |-> {}, rtStatusReport |-> FALSE, rtCycleStop |-> FALSE,
                 alarm |-> "None"]
        ELSE
            [remainingMotors |-> rem1, rtStatusReport |-> FALSE, rtCycleStop |-> cstop,
             alarm |-> "None"]

\* the loop that ends no pull-off: it clears the cycle-stop of a finished
\* pull-off and leaves remainingMotors as it is
run_iteration_PulloffNeverEnds(rem, appr, limited, status, reset, door, cstop) ==
    LET rem1 == IF appr THEN rem \ limited ELSE rem
    IN  IF reset THEN
            [remainingMotors |-> rem1, rtStatusReport |-> FALSE, rtCycleStop |-> cstop,
             alarm |-> "HomingFailReset"]
        ELSE IF door THEN
            [remainingMotors |-> rem1, rtStatusReport |-> FALSE, rtCycleStop |-> cstop,
             alarm |-> "HomingFailDoor"]
        ELSE IF cstop THEN
            IF appr THEN
                [remainingMotors |-> rem1, rtStatusReport |-> FALSE, rtCycleStop |-> FALSE,
                 alarm |-> "HomingFailApproach"]
            ELSE IF limited \cap rem1 # {} THEN
                [remainingMotors |-> rem1, rtStatusReport |-> FALSE, rtCycleStop |-> FALSE,
                 alarm |-> "HomingFailPulloff"]
            ELSE
                [remainingMotors |-> rem1, rtStatusReport |-> FALSE, rtCycleStop |-> FALSE,
                 alarm |-> "None"]
        ELSE
            [remainingMotors |-> rem1, rtStatusReport |-> FALSE, rtCycleStop |-> cstop,
             alarm |-> "None"]

\* One iteration of the do/while loop of run(): the new remainingMotors, the
\* realtime flags it leaves, the alarm it throws ("None" when it throws none)
run_iteration(rem, appr, limited, status, reset, door, cstop) ==
    LET rem1 == IF appr THEN rem \ limited ELSE rem
    IN  IF reset THEN
            [remainingMotors |-> rem1, rtStatusReport |-> FALSE, rtCycleStop |-> cstop,
             alarm |-> "HomingFailReset"]
        ELSE IF door THEN
            [remainingMotors |-> rem1, rtStatusReport |-> FALSE, rtCycleStop |-> cstop,
             alarm |-> "HomingFailDoor"]
        ELSE IF cstop THEN
            IF appr THEN
                [remainingMotors |-> rem1, rtStatusReport |-> FALSE, rtCycleStop |-> FALSE,
                 alarm |-> "HomingFailApproach"]
            ELSE IF limited \cap rem1 # {} THEN
                [remainingMotors |-> rem1, rtStatusReport |-> FALSE, rtCycleStop |-> FALSE,
                 alarm |-> "HomingFailPulloff"]
            ELSE
                [remainingMotors |-> {}, rtStatusReport |-> FALSE, rtCycleStop |-> FALSE,
                 alarm |-> "None"]
        ELSE
            [remainingMotors |-> rem1, rtStatusReport |-> FALSE, rtCycleStop |-> cstop,
             alarm |-> "None"]

\* run_one_cycle that runs Pulloff2 without asking needsPulloff2
NextPhase_AlwaysPulloff2(k, m) ==
    IF k < 6 THEN k + 1 ELSE 0

\* where run_one_cycle continues after the run() call of phase k returned
NextPhase(k, m) ==
    IF k < 5 THEN k + 1
    ELSE IF k = 5 /\ needsPulloff2(m) THEN 6
    ELSE 0

\* ------------------------------------------------------------------------
\* Initial state: a configuration and a request; nothing is in motion
\* ------------------------------------------------------------------------
\* nothing has run yet
Idle ==
    /\ cycle = 0
    /\ someAxisHomed = FALSE
    /\ axisMask = {}
    /\ phaseIdx = 0
    /\ remainingMotors = {}
    /\ settling_ms = 0
    /\ target = [a \in Axes |-> Frac(StepsBeforeHoming(a), 1)]
    /\ rate = 0
    /\ approach = FALSE
    /\ alarm = "None"
    /\ rtAlarm = "None"
    /\ sysState = "Homing"
    /\ rtStatusReport = FALSE
    /\ rtReset = FALSE
    /\ rtSafetyDoor = FALSE
    /\ rtCycleStop = FALSE
    /\ posLimitMask = {}
    /\ negLimitMask = {}
    /\ moving = FALSE
    /\ homingMode = {}
    /\ blocked = {}
    /\ motorSteps = [a \in Axes |-> StepsBeforeHoming(a)]
    /\ cycleLog = <<>>
    /\ phaseLog = <<>>
    /\ returned = {}
    /\ commitLog = <<>>
    /\ runTrace = <<>>
    /\ lastExit = "none"
    /\ limitSeen = {}
    /\ fnResult = "none"

Init ==
    /\ cfg \in MachineConfigs
    /\ request \in Requests(cfg)
    /\ pc = "run_cycles"
    /\ motors = {}
    /\ Idle

\* ------------------------------------------------------------------------
\* Homing::run_cycles
\* ------------------------------------------------------------------------
\* entry of run_one_cycle(mask), called from run_cycles
CallRunOneCycle(mask) ==
    LET am == mask \cap homingMask
        hm == set_homing_mode(am, TRUE)
    IN  /\ axisMask' = am
        /\ motors' = hm.motors
        /\ homingMode' = hm.homingMode
        /\ blocked' = hm.blocked
        /\ phaseIdx' = 1
        /\ cycleLog' = Append(cycleLog, <<cycle', am>>)
        /\ phaseLog' = <<>>
        /\ returned' = {}
        /\ pc' = "run"

\* run_cycles(axisMask) with a specific axis set: one cycle
RunCyclesOne ==
    /\ pc = "run_cycles"
    /\ request # AllCycles
    /\ UNCHANGED cyclesVars
    /\ CallRunOneCycle(request)
    /\ UNCHANGED <<cfgVars, runVars, approach, alarm, rtAlarm, sysState, rtVars, limitVars,
                   moving, motorSteps, commitLog, runTrace, lastExit, limitSeen>>

\* run_cycles(AllCycles): entry of the for loop
RunCyclesAll ==
    /\ pc = "run_cycles"
    /\ request = AllCycles
    /\ someAxisHomed' = FALSE
    /\ cycle' = 1
    /\ pc' = "for_cycle"
    /\ UNCHANGED <<cfgVars, cycleVars, runVars, approach, alarm, rtAlarm, sysState, rtVars,
                   limitVars, moving, motorVars, histVars>>

\* a cycle loop that goes on after a failed cycle
CycleLoopAborts_Never == FALSE

\* "If a cycle fails, we skip following cycles"
CycleLoopAborts == sysState = "Alarm"

\* run_cycles that returns without the alarm when no cycle was run
NoCyclesAlarm_Never(homed) == sysState

\* sys.state after the loop: "No homing cycles defined"
NoCyclesAlarm(homed) == IF ~homed THEN "Alarm" ELSE sysState

\* the test and the body of the for loop, and the code after the loop
ForCycle ==
    /\ pc = "for_cycle"
    /\ IF cycle > MaxNAxis THEN
            /\ sysState' = NoCyclesAlarm(someAxisHomed)
            /\ pc' = "done"
            /\ UNCHANGED <<cyclesVars, cycleVars, motorVars, cycleLog, phaseLog, returned>>
       ELSE IF CycleLoopAborts THEN
            /\ pc' = "done"
            /\ UNCHANGED <<sysState, cyclesVars, cycleVars, motorVars, cycleLog, phaseLog, returned>>
       ELSE IF axis_mask_from_cycle(cfg, cycle) # {} THEN
            /\ someAxisHomed' = TRUE
            /\ cycle' = cycle
            /\ CallRunOneCycle(axis_mask_from_cycle(cfg, cycle))
            /\ UNCHANGED <<sysState, motorSteps>>
       ELSE
            /\ cycle' = cycle + 1
            /\ pc' = "for_cycle"
            /\ UNCHANGED <<sysState, someAxisHomed, cycleVars, motorVars, cycleLog, phaseLog, returned>>
    /\ UNCHANGED <<cfgVars, runVars, approach, alarm, rtAlarm, rtVars, limitVars, moving,
                   commitLog, runTrace, lastExit, limitSeen>>

\* return of run_one_cycle to run_cycles
ReturnFromCycle ==
    /\ pc' = IF request # AllCycles THEN "done" ELSE "for_cycle"
    /\ cycle' = IF request # AllCycles THEN cycle ELSE cycle + 1
    /\ UNCHANGED someAxisHomed

\* ------------------------------------------------------------------------
\* Homing::run and Homing::plan_move
\* ------------------------------------------------------------------------
\* return of run() to run_one_cycle: the next run() call, or set_mpos
ReturnFromRun ==
    /\ returned' = returned \cup {Phases[phaseIdx]}
    /\ phaseIdx' = NextPhase(phaseIdx, motors)
    /\ pc' = IF NextPhase(phaseIdx, motors) = 0 THEN "set_mpos" ELSE "run"

\* run(motors, phase) up to the loop: the early returns, _approach, plan_move
RunEntry ==
    /\ pc = "run"
    /\ LET phase == Phases[phaseIdx]
           limited == posLimitMask \cup negLimitMask
       IN  IF SkipRun(motors, phase, limited) THEN
                /\ ReturnFromRun
                /\ lastExit' = "skip"
                /\ runTrace' = <<>>
                /\ UNCHANGED <<runVars, approach, moving, blocked, motorSteps, phaseLog, limitSeen>>
           ELSE
                /\ remainingMotors' = motors
                /\ approach' = ApproachOf(phase)
                /\ settling_ms' = PlanSettle(motors)
                /\ target' = PlanTarget(cfg, motors, phase, ApproachOf(phase), motorSteps)
                /\ rate' = PlanRate(cfg, motors, phase)
                /\ limitSeen' = {}
                /\ motorSteps' = [a \in Axes |-> IF a \in ActiveAxes(motors) THEN 0 ELSE motorSteps[a]]
                /\ blocked' = blocked \cup PlanBlocks(motors, phase)
                /\ moving' = TRUE
                /\ phaseLog' = Append(phaseLog, phase)
                /\ runTrace' = <<"plan_move">>
                /\ pc' = "loop"
                /\ UNCHANGED <<phaseIdx, returned, lastExit>>
    /\ UNCHANGED <<cfgVars, cyclesVars, axisMask, motors, alarm, rtAlarm, sysState, rtVars,
                   limitVars, homingMode, cycleLog, commitLog>>

\* one iteration of the do/while loop
RunLoop ==
    /\ pc = "loop"
    /\ LET it == run_iteration(remainingMotors, approach, posLimitMask \cup negLimitMask,
                               rtStatusReport, rtReset, rtSafetyDoor, rtCycleStop)
       IN  /\ remainingMotors' = it.remainingMotors
           /\ rtStatusReport' = it.rtStatusReport
           /\ rtCycleStop' = it.rtCycleStop
           /\ alarm' = it.alarm
           /\ pc' = IF it.alarm # "None" THEN "catch"
                    ELSE IF it.remainingMotors = {} THEN "stepper_reset"
                    ELSE "loop"
           /\ lastExit' = IF it.alarm # "None" THEN "alarm" ELSE lastExit
           /\ runTrace' = IF it.alarm # "None" THEN Append(runTrace, it.alarm) ELSE runTrace
    /\ limitSeen' = IF approach THEN limitSeen \cup ((posLimitMask \cup negLimitMask) \cap motors)
                    ELSE limitSeen
    /\ UNCHANGED <<cfgVars, cyclesVars, cycleVars, settling_ms, target, rate, approach, rtAlarm, sysState,
                   rtReset, rtSafetyDoor, limitVars, moving, motorVars, cycleLog, phaseLog,
                   returned, commitLog>>

\* Stepper::reset() after the loop
StepperReset ==
    /\ pc = "stepper_reset"
    /\ moving' = FALSE
    /\ runTrace' = Append(runTrace, "Stepper::reset")
    /\ pc' = "delay_ms"
    /\ UNCHANGED <<cfgVars, cyclesVars, cycleVars, runVars, approach, alarm, rtAlarm, sysState,
                   rtVars, limitVars, motorVars, cycleLog, phaseLog, returned, commitLog, lastExit,
                   limitSeen>>

\* delay_ms(settling_ms)
DelayMs ==
    /\ pc = "delay_ms"
    /\ runTrace' = Append(runTrace, <<"delay_ms", settling_ms>>)
    /\ pc' = "clear_approach"
    /\ UNCHANGED <<cfgVars, cyclesVars, cycleVars, runVars, approach, alarm, rtAlarm, sysState,
                   rtVars, limitVars, moving, motorVars, cycleLog, phaseLog, returned, commitLog,
                   lastExit, limitSeen>>

\* _approach = false, and the return of run()
ClearApproach ==
    /\ pc = "clear_approach"
    /\ approach' = FALSE
    /\ runTrace' = Append(runTrace, "_approach = false")
    /\ lastExit' = "normal"
    /\ ReturnFromRun
    /\ UNCHANGED <<cfgVars, cyclesVars, axisMask, motors, runVars, alarm, rtAlarm, sysState,
                   rtVars, limitVars, moving, motorVars, cycleLog, phaseLog, commitLog, limitSeen>>

\* ------------------------------------------------------------------------
\* Homing::run_one_cycle after the phases, and Homing::set_mpos
\* ------------------------------------------------------------------------
\* mc_reset(): "Stop motors, if they are running": what is left of the motion
mc_reset == FALSE

\* protocol_execute_realtime(): a pending rtAlarm puts the system in the alarm state
protocol_execute_realtime(pending) == IF pending # "None" THEN "Alarm" ELSE sysState

\* a catch block without its return: it falls through to set_mpos
Catch_FallsThrough ==
    /\ pc = "catch"
    /\ rtAlarm' = alarm
    /\ alarm' = "None"
    /\ homingMode' = set_homing_mode(axisMask, FALSE).homingMode
    /\ blocked' = set_homing_mode(axisMask, FALSE).blocked
    /\ moving' = mc_reset
    /\ sysState' = protocol_execute_realtime(alarm)
    /\ pc' = "set_mpos"
    /\ UNCHANGED <<cfgVars, cyclesVars, cycleVars, runVars, approach, rtVars, limitVars,
                   motorSteps, histVars>>

\* the catch block of run_one_cycle
Catch ==
    /\ pc = "catch"
    /\ rtAlarm' = alarm
    /\ alarm' = "None"
    /\ homingMode' = set_homing_mode(axisMask, FALSE).homingMode
    /\ blocked' = set_homing_mode(axisMask, FALSE).blocked
    /\ moving' = mc_reset
    /\ sysState' = protocol_execute_realtime(alarm)
    /\ ReturnFromCycle
    /\ UNCHANGED <<cfgVars, cycleVars, runVars, approach, rtVars, limitVars, motorSteps, histVars>>

\* set_mpos(axisMask) and the return of run_one_cycle
SetMpos ==
    /\ pc = "set_mpos"
    /\ motorSteps' = [a \in Axes |-> IF a \in axisMask THEN HomeSteps(a) ELSE motorSteps[a]]
    /\ homingMode' = set_homing_mode(axisMask, FALSE).homingMode
    /\ blocked' = set_homing_mode(axisMask, FALSE).blocked
    /\ commitLog' = Append(commitLog, axisMask)
    /\ ReturnFromCycle
    /\ UNCHANGED <<cfgVars, cycleVars, runVars, approach, alarm, rtAlarm, sysState, rtVars,
                   limitVars, moving, cycleLog, phaseLog, returned, runTrace, lastExit, limitSeen>>

\* ------------------------------------------------------------------------
\* The asynchronous sources
\* ------------------------------------------------------------------------
Homing == pc # "done"

\* a status report is requested while the loop polls
RequestStatusReport ==
    /\ pc = "loop"
    /\ ~rtStatusReport
    /\ rtStatusReport' = TRUE
    /\ UNCHANGED <<cfgVars, pc, cyclesVars, cycleVars, runVars, approach, alarm, rtAlarm, sysState,
                   rtReset, rtSafetyDoor, rtCycleStop, limitVars, moving, motorVars, histVars>>

\* a reset is requested
RequestReset ==
    /\ Homing
    /\ ~rtReset
    /\ rtReset' = TRUE
    /\ UNCHANGED <<cfgVars, pc, cyclesVars, cycleVars, runVars, approach, alarm, rtAlarm, sysState,
                   rtStatusReport, rtSafetyDoor, rtCycleStop, limitVars, moving, motorVars, histVars>>

\* the safety door is opened
OpenSafetyDoor ==
    /\ Homing
    /\ ~rtSafetyDoor
    /\ rtSafetyDoor' = TRUE
    /\ UNCHANGED <<cfgVars, pc, cyclesVars, cycleVars, runVars, approach, alarm, rtAlarm, sysState,
                   rtStatusReport, rtReset, rtCycleStop, limitVars, moving, motorVars, histVars>>

\* the stepper finishes the planned move and raises cycle-stop
MoveEnds ==
    /\ moving
    /\ moving' = FALSE
    /\ rtCycleStop' = TRUE
    /\ UNCHANGED <<cfgVars, pc, cyclesVars, cycleVars, runVars, approach, alarm, rtAlarm, sysState,
                   rtStatusReport, rtReset, rtSafetyDoor, limitVars, motorVars, histVars>>

\* The limit switch of a motor of the cycle closes or opens.  The switch an
\* axis homes on is at its positive end when it homes in the positive
\* direction, else at its negative end.  The masks are read at the entry of
\* run() and in the loop.
LimitChange ==
    /\ pc \in {"run", "loop"}
    /\ \E b \in motors :
        IF cfg[b % MotorShift].positiveDirection
        THEN /\ posLimitMask' = IF b \in posLimitMask THEN posLimitMask \ {b}
                                ELSE posLimitMask \cup {b}
             /\ UNCHANGED negLimitMask
        ELSE /\ negLimitMask' = IF b \in negLimitMask THEN negLimitMask \ {b}
                                ELSE negLimitMask \cup {b}
             /\ UNCHANGED posLimitMask
    /\ UNCHANGED <<cfgVars, pc, cyclesVars, cycleVars, runVars, approach, alarm, rtAlarm, sysState,
                   rtVars, moving, motorVars, histVars>>

Next ==
    \/ RunCyclesOne
    \/ RunCyclesAll
    \/ ForCycle
    \/ RunEntry
    \/ RunLoop
    \/ StepperReset
    \/ DelayMs
    \/ ClearApproach
    \/ Catch
    \/ SetMpos
    \/ RequestStatusReport
    \/ RequestReset
    \/ OpenSafetyDoor
    \/ MoveEnds
    \/ LimitChange

Spec == Init /\ [][Next]_vars

\* the steps of the thread that runs run_cycles
HomingThread ==
    \/ RunCyclesOne
    \/ RunCyclesAll
    \/ ForCycle
    \/ RunEntry
    \/ RunLoop
    \/ StepperReset
    \/ DelayMs
    \/ ClearApproach
    \/ Catch
    \/ SetMpos

\* The homing thread keeps being scheduled, and the stepper ends the move it
\* was given and raises cycle-stop.  Nothing is assumed of the operator
\* (status report, reset, safety door) nor of the limit switches.
SpecLive == Spec /\ WF_vars(HomingThread) /\ WF_vars(MoveEnds)

\* ------------------------------------------------------------------------
\* needsPulloff2 on its own: every motor mask over the motor bits of the axes
\* and of one axis index past them, every pair of pull-offs per axis
\* ------------------------------------------------------------------------
MaskBits == {motor_bit(a, m) : a \in AxisBits, m \in {0, 1}}

PulloffConfigs ==
    {c \in [Axes -> AxisConfigs] : \A a \in Axes :
        /\ c[a].homing
        /\ c[a].cycle = 0
        /\ c[a].settle_ms = (a % MaxSettle) + 1
        /\ c[a].positiveDirection = (a % 2 = 0)}

InitPulloff2 ==
    /\ cfg \in PulloffConfigs
    /\ request = AllCycles
    /\ pc = "needsPulloff2"
    /\ motors \in SUBSET MaskBits
    /\ Idle

ApplyNeedsPulloff2 ==
    /\ pc = "needsPulloff2"
    /\ fnResult' = needsPulloff2(motors)
    /\ pc' = "returned"
    /\ UNCHANGED <<cfg, request, cyclesVars, cycleVars, runVars, approach, alarm, rtAlarm,
                   sysState, rtVars, limitVars, moving, motorVars, histVars>>

NextPulloff2 == ApplyNeedsPulloff2

SpecPulloff2 == InitPulloff2 /\ [][NextPulloff2]_vars

\* ------------------------------------------------------------------------
\* plan_move on its own, as run() calls it: every non-empty set of motors 0 of
\* the axes, every phase, every seek rate, travel limit and seek scale factor
\* per axis
\* ------------------------------------------------------------------------
\* seek scale factors, in hundredths
Scalers == {ScalerUnit, ScalerUnit + 10}

PlanConfigs ==
    {[a \in Axes |->
        f[a] @@ [homing |-> TRUE, cycle |-> 0, settle_ms |-> (a % MaxSettle) + 1,
                 positiveDirection |-> (a % 2 = 0), dual |-> FALSE, extraPulloff |-> 0,
                 feedRate |-> 1, commonPulloff |-> 1, feed_scaler |-> ScalerUnit + 10]] :
     f \in [Axes -> [seekRate : 1 .. MaxRate, maxTravel : 1 .. MaxTravel, seek_scaler : Scalers]]}

InitPlanMove ==
    /\ cfg \in PlanConfigs
    /\ request = AllCycles
    /\ pc = "plan_move"
    /\ motors \in (SUBSET {motor_bit(a, 0) : a \in Axes}) \ {{}}
    /\ Idle

\* run(motors, phase) from the assignment of _approach to the return of plan_move
ApplyPlanMove ==
    /\ pc = "plan_move"
    /\ \E k \in 1 .. Len(Phases) :
        /\ phaseIdx' = k
        /\ approach' = ApproachOf(Phases[k])
        /\ settling_ms' = PlanSettle(motors)
        /\ target' = PlanTarget(cfg, motors, Phases[k], ApproachOf(Phases[k]), motorSteps)
        /\ rate' = PlanRate(cfg, motors, Phases[k])
        /\ blocked' = blocked \cup PlanBlocks(motors, Phases[k])
    /\ motorSteps' = [a \in Axes |-> IF a \in ActiveAxes(motors) THEN 0 ELSE motorSteps[a]]
    /\ remainingMotors' = motors
    /\ moving' = TRUE
    /\ pc' = "planned"
    /\ UNCHANGED <<cfgVars, cyclesVars, axisMask, motors, alarm, rtAlarm, sysState, rtVars,
                   limitVars, homingMode, histVars>>

NextPlanMove == ApplyPlanMove

SpecPlanMove == InitPlanMove /\ [][NextPlanMove]_vars

TypeOK ==
    /\ pc \in {"run_cycles", "for_cycle", "run", "loop", "stepper_reset", "delay_ms",
               "clear_approach", "catch", "set_mpos", "done"}
    /\ remainingMotors \subseteq motors
    /\ alarm \in HomingAlarms \cup {"None"}

\* ------------------------------------------------------------------------
\* Properties
\* ------------------------------------------------------------------------
Last(s) == s[Len(s)]
Range(s) == {s[i] : i \in 1 .. Len(s)}
PhaseIndex(p) == CHOOSE i \in 1 .. 6 : Phases[i] = p

\* the positions between the entry of a phase (plan_move done) and its exit
InPhase == {"loop", "stepper_reset", "delay_ms", "clear_approach"}

\* C1: _approach is false whenever control is outside a phase: after every
\* exit from run(), by return or by a raised alarm, and after run_one_cycle()
\* and run_cycles() return.
C1_ApproachFalseOutsidePhase == pc \notin InPhase => ~approach

\* C2: when a phase raises an alarm no later phase of the cycle plans a move,
\* the alarm is recorded in rtAlarm, the motors of the cycle leave homing mode,
\* the motion is stopped and no axis of the cycle gets its position committed;
\* set_mpos runs only after every phase of the cycle returned without alarm.
C2_FailedCycleAbandoned ==
    /\ Len(commitLog) <= Len(cycleLog)
    /\ lastExit = "alarm" =>
        /\ phaseLog # <<>>
        /\ Last(phaseLog) = Phases[phaseIdx]
        /\ Len(commitLog) < Len(cycleLog)
        /\ \A a \in axisMask : motorSteps[a] # HomeSteps(a)
    /\ (lastExit = "alarm" /\ pc # "catch") =>
        /\ rtAlarm \in HomingAlarms
        /\ rtAlarm = Last(runTrace)
        /\ homingMode \cap motors = {}
        /\ ~moving
    /\ (cycleLog # <<>> /\ Len(commitLog) = Len(cycleLog)) =>
        /\ lastExit # "alarm"
        /\ {Phases[j] : j \in 1 .. 5} \subseteq returned
        /\ Last(commitLog) = axisMask

\* C2 witness: a cycle whose third phase failed has been abandoned
C2_Witness ==
    /\ lastExit = "alarm"
    /\ pc \in {"done", "for_cycle"}
    /\ phaseIdx = 3
    /\ axisMask # {}

\* C3: in an "all cycles" request, once a cycle has failed no later cycle is
\* attempted: no motor enters homing mode, no move is planned and no position
\* is committed after the failure.
C3_NoCycleAfterFailure ==
    [][lastExit = "alarm" =>
        /\ cycleLog' = cycleLog
        /\ phaseLog' = phaseLog
        /\ commitLog' = commitLog
        /\ homingMode' \subseteq homingMode
        /\ motorSteps' = motorSteps]_vars

\* C3 witness: the request ended after a failed cycle although an axis is
\* configured for a later cycle
C3_Witness ==
    /\ request = AllCycles
    /\ pc = "done"
    /\ lastExit = "alarm"
    /\ \E a \in Axes : cfg[a].homing /\ cfg[a].cycle >= cycle /\ cfg[a].cycle <= MaxNAxis

\* C4: the phases of a cycle that plan a move occur in the order PrePulloff,
\* FastApproach, Pulloff0, SlowApproach, Pulloff1, Pulloff2; a phase starts
\* only when every earlier one has returned; Pulloff2 runs if and only if the
\* five phases before it returned and needsPulloff2(motors) holds.
C4_PhaseOrder ==
    /\ \A i, j \in 1 .. Len(phaseLog) :
            i < j => PhaseIndex(phaseLog[i]) < PhaseIndex(phaseLog[j])
    /\ pc \in InPhase \cup {"run", "catch"} =>
        /\ returned = {Phases[j] : j \in 1 .. (phaseIdx - 1)}
        /\ \A i \in 1 .. Len(phaseLog) : PhaseIndex(phaseLog[i]) <= phaseIdx
    /\ pc \in InPhase \cup {"catch"} => Last(phaseLog) = Phases[phaseIdx]
    /\ "Pulloff2" \in Range(phaseLog) =>
        /\ needsPulloff2(motors)
        /\ {Phases[j] : j \in 1 .. 5} \subseteq returned
    /\ ({Phases[j] : j \in 1 .. 5} \subseteq returned /\ needsPulloff2(motors)) =>
        \/ "Pulloff2" \in Range(phaseLog)
        \/ pc = "run" /\ phaseIdx = 6

\* C4 witness: a cycle ran all six phases, each with a move
C4_Witness ==
    /\ pc = "set_mpos"
    /\ phaseLog = Phases

\* the axes configured for a cycle number
AxesOfCycle(cy) == {a \in Axes : cfg[a].homing /\ cfg[a].cycle = cy}

\* the number of entries of a log of axis masks that hold an axis
TimesIn(log, a) == Cardinality({i \in 1 .. Len(log) : a \in log[i]})

\* C5: an "all cycles" request runs the cycles in increasing cycle number from
\* 1 up to the maximum axis count, each with exactly the axes configured for
\* that number; without a failure every axis with a number in that range is
\* homed exactly once, the numbers without axis are skipped, and an axis whose
\* number is 0 is never put in homing mode nor moved.
C5_AllCyclesOrder ==
    request = AllCycles =>
        /\ \A i \in 1 .. Len(cycleLog) :
            /\ cycleLog[i][1] \in 1 .. MaxNAxis
            /\ cycleLog[i][2] = AxesOfCycle(cycleLog[i][1])
            /\ cycleLog[i][2] # {}
        /\ \A i, j \in 1 .. Len(cycleLog) : i < j => cycleLog[i][1] < cycleLog[j][1]
        /\ (pc = "done" /\ lastExit # "alarm") =>
            /\ {cycleLog[i][1] : i \in 1 .. Len(cycleLog)} =
                    {cy \in 1 .. MaxNAxis : AxesOfCycle(cy) # {}}
            /\ \A a \in Axes : (cfg[a].homing /\ cfg[a].cycle \in 1 .. MaxNAxis) =>
                    /\ TimesIn([i \in 1 .. Len(cycleLog) |-> cycleLog[i][2]], a) = 1
                    /\ TimesIn(commitLog, a) = 1
                    /\ motorSteps[a] = HomeSteps(a)
        /\ \A a \in Axes : (cfg[a].cycle \notin 1 .. MaxNAxis) =>
                /\ motor_bit(a, 0) \notin homingMode
                /\ motor_bit(a, 1) \notin homingMode
                /\ motorSteps[a] = StepsBeforeHoming(a)
                /\ \A i \in 1 .. Len(cycleLog) : a \notin cycleLog[i][2]

\* C5 witness: two cycles were run and ended without failure, while one
\* cycle number had no axis
C5_Witness ==
    /\ request = AllCycles
    /\ pc = "done"
    /\ lastExit # "alarm"
    /\ Len(commitLog) = 1
    /\ \E a \in Axes : cfg[a].homing /\ cfg[a].cycle = 0
    /\ \E a \in Axes : cfg[a].homing /\ cfg[a].cycle = MaxNAxis

\* C6: one iteration of the loop resolves the pending signals in the order
\* reset, safety door, cycle-stop: a pending reset fails the phase with
\* HomingFailReset whatever else is pending, else a pending safety door fails
\* it with HomingFailDoor, and a cycle-stop is consumed only on an iteration
\* on which neither reset nor safety door is pending.
C6_SignalPriority ==
    [][RunLoop =>
        /\ rtReset => (alarm' = "HomingFailReset" /\ pc' = "catch")
        /\ (~rtReset /\ rtSafetyDoor) => (alarm' = "HomingFailDoor" /\ pc' = "catch")
        /\ (rtCycleStop /\ ~rtCycleStop') => (~rtReset /\ ~rtSafetyDoor)
        /\ (rtCycleStop /\ ~rtReset /\ ~rtSafetyDoor) => ~rtCycleStop']_vars

\* C6 witness: reset won while safety door and cycle-stop were pending too
C6_Witness ==
    /\ pc = "catch"
    /\ alarm = "HomingFailReset"
    /\ rtSafetyDoor
    /\ rtCycleStop

\* C7: a cycle-stop seen during an approach phase with neither reset nor
\* safety door pending is cleared and raises HomingFailApproach; run() does
\* not reset the stepper, does not delay and does not return.
C7_ApproachCycleStop ==
    [][(RunLoop /\ approach /\ rtCycleStop /\ ~rtReset /\ ~rtSafetyDoor) =>
        /\ Phases[phaseIdx] \in ApproachPhases
        /\ alarm' = "HomingFailApproach"
        /\ pc' = "catch"
        /\ ~rtCycleStop'
        /\ moving' = moving
        /\ runTrace' = <<"plan_move", "HomingFailApproach">>
        /\ returned' = returned
        /\ lastExit' = "alarm"]_vars

\* C7 witness: an approach phase was failed by a cycle-stop
C7_Witness ==
    /\ pc = "catch"
    /\ alarm = "HomingFailApproach"
    /\ approach

\* C8: a cycle-stop seen during a pull-off phase with neither reset nor safety
\* door pending raises HomingFailPulloff when a limit bit of a motor of the
\* phase is active; else the phase ends: Stepper::reset, then a delay of the
\* settle time plan_move returned, then the clearing of _approach.
C8_PulloffCycleStop ==
    [][/\ (RunLoop /\ ~approach /\ rtCycleStop /\ ~rtReset /\ ~rtSafetyDoor) =>
            /\ Phases[phaseIdx] \notin ApproachPhases
            /\ ~rtCycleStop'
            /\ IF (posLimitMask \cup negLimitMask) \cap motors # {}
               THEN alarm' = "HomingFailPulloff" /\ pc' = "catch"
               ELSE alarm' = "None" /\ pc' = "stepper_reset"
       /\ (ClearApproach /\ Phases[phaseIdx] \notin ApproachPhases) =>
            /\ runTrace' = <<"plan_move", "Stepper::reset",
                             <<"delay_ms", SetMax({cfg[a].settle_ms : a \in axisMask})>>,
                             "_approach = false">>
            /\ ~approach'
            /\ ~moving']_vars

\* C8 witness: a pull-off phase of two axes ended normally and a later
\* pull-off of the cycle was failed by a switch that stayed closed
C8_Witness ==
    /\ pc = "catch"
    /\ alarm = "HomingFailPulloff"
    /\ "Pulloff0" \in returned
    /\ "Pulloff0" \in Range(phaseLog)
    /\ Cardinality(axisMask) = 2

\* C9: run() does nothing when motors is 0, or when the phase is PrePulloff
\* and no limit bit of the motors is active: no move, no step position
\* zeroed, no stepper reset, no delay, no realtime flag consumed, _approach
\* unchanged.
C9_SkippedRunIsNoOp ==
    [][(RunEntry /\ (\/ motors = {}
                      \/ /\ Phases[phaseIdx] = "PrePulloff"
                         /\ (posLimitMask \cup negLimitMask) \cap motors = {})) =>
        /\ pc' \in {"run", "set_mpos"}
        /\ returned' = returned \cup {Phases[phaseIdx]}
        /\ runTrace' = <<>>
        /\ UNCHANGED <<phaseLog, motorSteps, moving, blocked, approach, rtVars, limitVars,
                       settling_ms, remainingMotors, alarm, rtAlarm, sysState, homingMode>>]_vars

\* C9 witness: PrePulloff was skipped for motors whose switches are open and
\* the cycle went on to plan its fast approach
C9_Witness ==
    /\ lastExit = "skip"
    /\ motors # {}
    /\ pc = "loop"
    /\ phaseLog = <<"FastApproach">>

\* C10: needsPulloff2(motors) is true if and only if some axis has its motor-0
\* bit and its motor-1 bit in motors and a nonzero extra pull-off; it is false
\* for every mask in which no axis has both bits.
C10_NeedsPulloff2 ==
    pc = "returned" =>
        /\ fnResult = (\E a \in Axes : /\ motor_bit(a, 0) \in motors
                                       /\ motor_bit(a, 1) \in motors
                                       /\ cfg[a].extraPulloff # 0)
        /\ (\A a \in AxisBits : ~(motor_bit(a, 0) \in motors /\ motor_bit(a, 1) \in motors))
                => fnResult = FALSE

\* C10 witness: true for a mask that holds both motors of an axis with equal
\* pull-offs and both motors of an axis with different ones
C10_Witness ==
    /\ pc = "returned"
    /\ fnResult = TRUE
    /\ \E a \in Axes : /\ motor_bit(a, 0) \in motors
                       /\ motor_bit(a, 1) \in motors
                       /\ cfg[a].extraPulloff = 0

\* C11: motors are blocked only by the move of Pulloff2.  While that phase is
\* in progress, an axis of the cycle with a negative extra pull-off has its
\* motor 1 blocked and its motor 0 free, one with a positive extra pull-off
\* has its motor 0 blocked and its motor 1 free, and in both cases the target
\* of the axis is |extra| away from 0; an axis with extra pull-off 0 has no
\* motor blocked.  In any other phase, and after run_one_cycle() returned by
\* either path, no motor is blocked.
C11_MotorBlocking ==
    LET inPulloff2 == /\ pc \in InPhase \cup {"catch", "set_mpos"}
                      /\ phaseLog # <<>>
                      /\ Last(phaseLog) = "Pulloff2"
    IN  /\ ~inPulloff2 => blocked = {}
        /\ pc \in {"for_cycle", "done"} => blocked = {}
        /\ inPulloff2 => \A a \in axisMask :
                /\ cfg[a].extraPulloff < 0 =>
                        /\ motor_bit(a, 1) \in blocked
                        /\ motor_bit(a, 0) \in motors \ blocked
                /\ cfg[a].extraPulloff > 0 =>
                        /\ motor_bit(a, 0) \in blocked
                        /\ motor_bit(a, 1) \in motors \ blocked
                /\ cfg[a].extraPulloff # 0 =>
                        /\ Abs(target[a][1]) = Abs(cfg[a].extraPulloff)
                        /\ target[a][2] = 1
                /\ cfg[a].extraPulloff = 0 =>
                        /\ motor_bit(a, 0) \notin blocked
                        /\ motor_bit(a, 1) \notin blocked
                /\ Cardinality({motor_bit(a, 0), motor_bit(a, 1)} \cap blocked) <= 1

\* C11 witness: Pulloff2 of a cycle of two axes is polling with one motor of
\* the squared axis blocked
C11_Witness ==
    /\ pc = "loop"
    /\ Last(phaseLog) = "Pulloff2"
    /\ Cardinality(axisMask) = 2
    /\ Cardinality(blocked) = 1

\* C11 witness of the return: a cycle whose Pulloff2 failed has returned
C11_WitnessReturned ==
    /\ pc \in {"for_cycle", "done"}
    /\ phaseLog # <<>>
    /\ Last(phaseLog) = "Pulloff2"
    /\ lastExit = "alarm"

\* C12: in a fast approach over two or more active axes whose seek scale
\* factors are equal, the targets are proportional to the seek rates:
\* |target_i| * rate_j = |target_j| * rate_i for all active axes i, j.
C12_FastApproachProportional ==
    (/\ pc = "planned"
     /\ Phases[phaseIdx] = "FastApproach"
     /\ Cardinality(motors) >= 2
     /\ \A i, j \in Axes : cfg[i].seek_scaler = cfg[j].seek_scaler) =>
        \A i, j \in Axes : (motor_bit(i, 0) \in motors /\ motor_bit(j, 0) \in motors) =>
            Abs(target[i][1]) * target[j][2] * cfg[j].seekRate =
                Abs(target[j][1]) * target[i][2] * cfg[i].seekRate

\* C13: in a fast approach with seek scale factors of at least 1, the target
\* of every active axis is at least its travel limit away: |target_i| >=
\* travel_i.
C13_FastApproachReachesLimit ==
    (/\ pc = "planned"
     /\ Phases[phaseIdx] = "FastApproach"
     /\ \A i \in Axes : cfg[i].seek_scaler >= ScalerUnit) =>
        \A i \in Axes : motor_bit(i, 0) \in motors =>
            Abs(target[i][1]) >= cfg[i].maxTravel * target[i][2]

C15_FlagsReadClear ==
    pc = "catch" =>
        /\ alarm = "HomingFailReset" => ~rtReset
        /\ alarm = "HomingFailDoor" => ~rtSafetyDoor
        /\ alarm \in {"HomingFailApproach", "HomingFailPulloff"} => ~rtCycleStop

\* C15 as amended: every iteration of the loop leaves the status-report flag
\* clear, and an iteration that acts on a pending cycle-stop (neither reset
\* nor safety door pending) clears the cycle-stop flag; the loop never writes
\* the reset and safety-door flags: the one whose alarm it raises is still set
\* when run() exits.
C15_StatusAndCycleStopCleared ==
    [][RunLoop =>
        /\ ~rtStatusReport'
        /\ (rtCycleStop /\ ~rtReset /\ ~rtSafetyDoor) => ~rtCycleStop'
        /\ rtReset' = rtReset
        /\ rtSafetyDoor' = rtSafetyDoor
        /\ alarm' = "HomingFailReset" => rtReset'
        /\ alarm' = "HomingFailDoor" => rtSafetyDoor']_vars

\* C15 witness: the loop raised HomingFailDoor with a cycle-stop pending that
\* it did not act on; the safety-door flag is still set
C15_Witness ==
    /\ pc = "catch"
    /\ alarm = "HomingFailDoor"
    /\ rtSafetyDoor
    /\ rtCycleStop
    /\ ~rtStatusReport

\* C16: while an approach phase polls, remainingMotors only shrinks, also when
\* a switch that was seen closed opens again; and the loop of an approach
\* phase is left for the normal exit only when every motor of the phase has
\* had its positive or negative limit bit read active by some iteration.
C16_ApproachRemainingShrinks ==
    [][/\ (pc = "loop" /\ approach /\ pc' = "loop") =>
            /\ remainingMotors' \subseteq remainingMotors
            /\ remainingMotors' \cap limitSeen' = {}
       /\ (pc = "loop" /\ approach /\ pc' = "stepper_reset") => motors \subseteq limitSeen'
       /\ (ClearApproach /\ Phases[phaseIdx] \in ApproachPhases) => motors \subseteq limitSeen]_vars

\* C16 witness: an approach of two motors left its loop normally while the
\* switch of one of them, seen closed earlier, is open again
C16_Witness ==
    /\ pc = "stepper_reset"
    /\ approach
    /\ Cardinality(motors) = 2
    /\ Cardinality((posLimitMask \cup negLimitMask) \cap motors) = 1
    /\ limitSeen = motors

\* C17: when run() has raised HomingFailApproach, some motor of the phase is
\* still in remainingMotors: the iteration that removes the last motor does
\* not raise HomingFailApproach, also when cycle-stop is pending on it.
C17_ApproachFailHasRemaining ==
    (pc = "catch" /\ alarm = "HomingFailApproach") =>
        /\ remainingMotors # {}
        /\ ~(motors \subseteq limitSeen)

\* C18: a run() call that planned a move leaves its loop and its exit
\* statements, by returning or by raising an alarm, and run_cycles() returns;
\* the loop raises an alarm only on an iteration that finds reset, safety
\* door or cycle-stop pending, and the alarm is one of the four homing alarms.
C18_EveryPhaseResolves ==
    /\ (pc \in InPhase) ~> (pc \notin InPhase)
    /\ <>(pc = "done")
    /\ [][(RunLoop /\ alarm' # "None") =>
            /\ rtReset \/ rtSafetyDoor \/ rtCycleStop
            /\ alarm' \in HomingAlarms
            /\ pc' = "catch"]_vars

\* C18 witness: run_cycles() has returned after a first cycle ran its phases
\* to the end and a second cycle failed in its slow approach
C18_Witness ==
    /\ pc = "done"
    /\ Len(cycleLog) = 2
    /\ Len(commitLog) = 1
    /\ rtAlarm = "HomingFailApproach"
    /\ Last(phaseLog) = "SlowApproach"

\* C19: a phase is failed by HomingFailApproach or HomingFailPulloff, and a
\* pull-off is ended normally, only by the cycle-stop of the phase's own move:
\* when the loop has acted on cycle-stop, the move that plan_move submitted
\* for this phase has ended.
C19_OwnCycleStopDecides ==
    /\ (pc = "catch" /\ alarm \in {"HomingFailApproach", "HomingFailPulloff"}) => ~moving
    /\ (pc = "stepper_reset" /\ Phases[phaseIdx] \notin ApproachPhases) => ~moving

\* C20: when plan_move has submitted a move and woken the stepper, neither
\* the reset flag nor the safety-door flag is set.
C20_NoMotionAfterResetOrDoor ==
    [][(RunEntry /\ pc' = "loop") => (~rtReset' /\ ~rtSafetyDoor')]_vars

====
